---- MODULE Spec2Model ----
(***************************************************************************)
(* Model of src/lib.rs (crate macvtap): the Iface handle over a raw file   *)
(* descriptor, its creation through the external routines create_tap and   *)
(* create_macvtap, the blocking read/write/flush forms, close, the raw     *)
(* descriptor accessors and Drop.                                          *)
(*                                                                         *)
(* The operating system is modelled as a descriptor table mapping each     *)
(* descriptor number to the device open on it (0: not open).  A closed     *)
(* number may be handed out again by a later creation.                     *)
(*                                                                         *)
(* Spec is the handle over an arbitrary OS, with buffers reduced to their  *)
(* length.  SpecLoop is the handle over a loopback double: two devices     *)
(* joined by a wire that carries one frame, with the buffers' bytes.       *)
(***************************************************************************)
EXTENDS Integers, Sequences, FiniteSets, TLC

\* ------------------------------------------------------------------ bounds
\* Number of Iface values created in one run.
MaxHandles == 2
\* Descriptor numbers the OS hands out are 0..MaxFd.
MaxFd == 1
\* Explicit close() calls made on one handle.
MaxCloses == 1
\* Longest buffer handed to read and write.
MaxLen == 1

\* Longest frame written to and read from the loopback double.
MaxFrame == 2

\* isize::max_value() of the asserts in read and write, for a 32-bit target.
IsizeMax == 2147483647

Handles == 1..MaxHandles
FDs == 0..MaxFd
Modes == {"Tun", "Tap", "MacvTap"}
\* Interface names as byte strings: "t0" and "t\0" (an embedded NUL byte).
Names == {<<116, 48>>, <<116, 0>>}
Mtus == {0, 1500}
\* Failure values an external creation routine returns.
NegRets == {-1}
\* errno values of a failing read or write on an open descriptor.
IoErrnos == {"EIO"}
IoOps == {"read", "read_ref", "write", "write_ref"}
NoFd == -1
\* Byte values of the frames of the loopback double.
Bytes == {1, 2}
Frames == UNION {[1..n -> Bytes] : n \in 0..MaxFrame}
\* No frame on the wire of the loopback double.
NoFrame == [to |-> 0, data |-> <<>>, sent |-> <<>>]

VARIABLES
    hstate,     \* per handle: "none", "live", "dropped" (Drop ran), "consumed"
    hfd,        \* per live handle: the field Iface.fd
    fdtable,    \* OS: descriptor number -> device open on it, 0 when closed
    ndev,       \* OS: devices created so far
    panicked,   \* the calling thread panicked and unwinds
    last,       \* the last operation: arguments, external calls, syscalls, result
    createdFd,  \* history: the value the external routine returned for the live handle
    hdev,       \* history: the device the handle's creation opened
    explicit,   \* history: explicit close() calls made on the live handle
    closeLog,   \* history: descriptors the live handle passed to libc::close
    wire        \* loopback double: the frame in flight, the device it goes to
                \* and (history) the buffer the writer handed to write

vars == <<hstate, hfd, fdtable, ndev, panicked, last,
          createdFd, hdev, explicit, closeLog, wire>>

hist == <<createdFd, hdev, explicit, closeLog>>

\* ------------------------------------------------------------ the OS model
\* The device open on descriptor fd; 0 for a number that is not open.
DevAt(tbl, fd) == IF fd \in DOMAIN tbl THEN tbl[fd] ELSE 0

\* close(2): an open descriptor is released whatever status is reported.
TableAfterClose(tbl, fd) ==
    IF fd \in DOMAIN tbl THEN [tbl EXCEPT ![fd] = 0] ELSE tbl

\* Statuses close(2) can report.
CloseRets(tbl, fd) == IF DevAt(tbl, fd) = 0 THEN {-1} ELSE {0, -1}

\* Results read(2)/write(2) can report for a request of len bytes.
IoRets(tbl, fd, len) == IF DevAt(tbl, fd) = 0 THEN {-1} ELSE (-1)..len

\* errno values a failing read(2)/write(2) can set.
IoErrnoSet(tbl, fd) == IF DevAt(tbl, fd) = 0 THEN {"EBADF"} ELSE IoErrnos

\* Values an external creation routine can return: a failure value, or the
\* number of a descriptor that is not open, on which it opens a new device.
ExtRets(tbl) == NegRets \cup {fd \in DOMAIN tbl : tbl[fd] = 0}

\* errno after close(2) reported status r on descriptor fd.
CloseErrno(tbl, fd, r) ==
    IF r >= 0 THEN "none" ELSE IF DevAt(tbl, fd) = 0 THEN "EBADF" ELSE "EIO"

\* One syscall: its arguments, its result, the errno it set and the device
\* that was open on fd when it was issued (0: none).
Sys(call, fd, len, ret, e, dev) ==
    [call |-> call, fd |-> fd, len |-> len, ret |-> ret, errno |-> e, dev |-> dev]

\* ------------------------------------------------------- pure code pieces
\* A conversion that does not look for NUL bytes.
CStringNewUnchecked(name) == "Ok"

\* CString::new(ifname): fails on an interior NUL byte.
CStringNew(name) ==
    IF \E i \in 1..Len(name) : name[i] = 0 THEN "NulError" ELSE "Ok"

\* A match with the two wired arms exchanged.
DispatchSwapped(mode) ==
    CASE mode = "Tap" -> "create_macvtap"
      [] mode = "MacvTap" -> "create_tap"
      [] OTHER -> "none"

\* The match on mode in Iface::new.
Dispatch(mode) ==
    CASE mode = "Tap" -> "create_tap"
      [] mode = "MacvTap" -> "create_macvtap"
      [] OTHER -> "none"

\* A test that takes descriptor 0 for a failure.
IsCreateFailureZero(fd) == fd <= 0

\* A test that lets the failure value -1 through.
IsCreateFailureOffByOne(fd) == fd < -1

\* if fd < 0 in Iface::new.
IsCreateFailure(fd) == fd < 0

\* assert!(buf.len() <= isize::max_value() as usize)
LenAssert(len) == len <= IsizeMax

\* A match without the arm x if x < 0: Ok(x as usize), a huge count for -1.
IoResultUnchecked(x, e) ==
    [kind |-> "Ok", val |-> IF x < 0 THEN IsizeMax ELSE x, err |-> "none"]

\* The match on the syscall's result in read and write; e is the errno that
\* std::io::Error::last_os_error() finds after the call.
IoResult(x, e) ==
    IF x < 0 THEN [kind |-> "Err", val |-> 0, err |-> e]
             ELSE [kind |-> "Ok", val |-> x, err |-> "none"]

\* ------------------------------------------------ the record of an operation
NoArgs == [name |-> <<>>, mode |-> "none", mtu |-> 0, len |-> 0]
NoLife == [fd |-> NoFd, explicit |-> 0, closes |-> <<>>]

\* op on handle h; args: its arguments; kind/val/err: what it returned;
\* data: the bytes of the caller's buffer (SpecLoop only);
\* ext: the external creation calls it made; sys: the syscalls it issued;
\* life: the handle's history after it (descriptor adopted, explicit closes,
\* descriptors passed to close); retry: the operation before it was a read or
\* write of the same handle that returned an error.
Blank(op, h) ==
    [op |-> op, h |-> h, args |-> NoArgs, kind |-> "Unit", val |-> 0,
     err |-> "none", ext |-> <<>>, sys |-> <<>>, life |-> NoLife, retry |-> FALSE,
     data |-> <<>>]

Life(h, ex, log) == [fd |-> createdFd[h], explicit |-> ex, closes |-> log]

\* The handle the next successful creation produces.
NextHandle == CHOOSE h \in Handles :
    hstate[h] = "none" /\ \A g \in Handles : hstate[g] = "none" => h <= g

Init ==
    /\ hstate = [h \in Handles |-> "none"]
    /\ hfd = [h \in Handles |-> NoFd]
    /\ fdtable = [fd \in FDs |-> 0]
    /\ ndev = 0
    /\ panicked = FALSE
    /\ last = Blank("init", 0)
    /\ createdFd = [h \in Handles |-> NoFd]
    /\ hdev = [h \in Handles |-> 0]
    /\ explicit = [h \in Handles |-> 0]
    /\ closeLog = [h \in Handles |-> <<>>]
    /\ wire = NoFrame

\* ---------------------------------------------------------------- Iface::new
\* CString::new(ifname).unwrap() on a name with an interior NUL byte.
NewPanics(name, mode, mtu) ==
    /\ CStringNew(name) = "NulError"
    /\ panicked' = TRUE
    /\ last' = [Blank("new", 0) EXCEPT
                  !.args = [NoArgs EXCEPT !.name = name, !.mode = mode, !.mtu = mtu],
                  !.kind = "Panic", !.err = "NulError"]
    /\ UNCHANGED <<hstate, hfd, fdtable, ndev, hist, wire>>

\* The external call (if the kind is wired), the test fd < 0 and the result.
NewReturns(name, mode, mtu) ==
    /\ CStringNew(name) = "Ok"
    /\ LET f == Dispatch(mode)
           h == NextHandle
           args == [NoArgs EXCEPT !.name = name, !.mode = mode, !.mtu = mtu]
       IN \E fd \in (IF f = "none" THEN {-1} ELSE ExtRets(fdtable)) :
            LET ext == IF f = "none" THEN <<>>
                       ELSE <<[fn |-> f, mtu |-> mtu, ret |-> fd]>>
                opened == f # "none" /\ fd >= 0
                dev == IF opened THEN ndev + 1 ELSE 0
            IN /\ fdtable' = IF opened THEN [fdtable EXCEPT ![fd] = dev] ELSE fdtable
               /\ ndev' = IF opened THEN ndev + 1 ELSE ndev
               /\ IF IsCreateFailure(fd)
                  THEN /\ last' = [Blank("new", 0) EXCEPT
                                     !.args = args, !.kind = "Err",
                                     !.err = "unable to create tap", !.ext = ext]
                       /\ UNCHANGED <<hstate, hfd, createdFd, hdev>>
                  ELSE /\ hstate' = [hstate EXCEPT ![h] = "live"]
                       /\ hfd' = [hfd EXCEPT ![h] = fd]
                       /\ createdFd' = [createdFd EXCEPT ![h] = fd]
                       /\ hdev' = [hdev EXCEPT ![h] = dev]
                       /\ last' = [Blank("new", h) EXCEPT
                                     !.args = args, !.kind = "Ok", !.val = fd,
                                     !.ext = ext, !.life = [NoLife EXCEPT !.fd = fd]]
    /\ UNCHANGED <<panicked, explicit, closeLog, wire>>

new(name, mode, mtu) ==
    /\ ~panicked
    /\ \E h \in Handles : hstate[h] = "none"
    /\ \/ NewPanics(name, mode, mtu)
       \/ NewReturns(name, mode, mtu)

\* -------------------------------------------------------------- Iface::close
\* A close that marks the handle closed by overwriting the field.
FdAfterCloseInvalidated(fd) == -1

\* The value of the field fd after close(&mut self): close passes self.fd to
\* libc::close and does not assign it.
FdAfterClose(fd) == fd

\* A close that reports a failing status as an error value.
CloseReturnMapped(r) ==
    IF r < 0 THEN [kind |-> "Err", val |-> 0] ELSE [kind |-> "Int", val |-> r]

\* What close() -> i32 returns when libc::close reports r: the block's value
\* is the call's value.
CloseReturn(r) == [kind |-> "Int", val |-> r]

\* unsafe { libc::close(self.fd) } on the descriptor table.
close(h) == fdtable' = TableAfterClose(fdtable, hfd[h])

CloseSys(h, r) ==
    Sys("close", hfd[h], 0, r, CloseErrno(fdtable, hfd[h], r), DevAt(fdtable, hfd[h]))

\* An explicit call iface.close(): the status of close(2) is returned as is.
Close(h) ==
    /\ ~panicked
    /\ hstate[h] = "live"
    /\ explicit[h] < MaxCloses
    /\ close(h)
    /\ hfd' = [hfd EXCEPT ![h] = FdAfterClose(@)]
    /\ \E r \in CloseRets(fdtable, hfd[h]) :
         last' = [Blank("close", h) EXCEPT
                    !.kind = CloseReturn(r).kind, !.val = CloseReturn(r).val,
                    !.sys = <<CloseSys(h, r)>>,
                    !.life = Life(h, explicit[h] + 1, Append(closeLog[h], hfd[h]))]
    /\ explicit' = [explicit EXCEPT ![h] = @ + 1]
    /\ closeLog' = [closeLog EXCEPT ![h] = Append(@, hfd[h])]
    /\ UNCHANGED <<hstate, ndev, panicked, createdFd, hdev, wire>>

\* The Iface value is gone: its field and its history are kept in last only.
Gone(h, how) ==
    /\ hstate' = [hstate EXCEPT ![h] = how]
    /\ hfd' = [hfd EXCEPT ![h] = NoFd]
    /\ createdFd' = [createdFd EXCEPT ![h] = NoFd]
    /\ explicit' = [explicit EXCEPT ![h] = 0]
    /\ closeLog' = [closeLog EXCEPT ![h] = <<>>]

\* ------------------------------------------------------------ Drop for Iface
\* A Drop::drop that leaves the descriptor alone.
dropNoClose(h, op, val) ==
    /\ fdtable' = fdtable
    /\ last' = [Blank(op, h) EXCEPT
                  !.kind = IF op = "drop" THEN "Unit" ELSE "Int", !.val = val,
                  !.life = Life(h, explicit[h], closeLog[h])]

\* Drop::drop, let _ = self.close(); the status is discarded.  op is the
\* operation that ends the handle's life and val what that operation returns.
drop(h, op, val) ==
    /\ close(h)
    /\ \E r \in CloseRets(fdtable, hfd[h]) :
         last' = [Blank(op, h) EXCEPT
                    !.kind = IF op = "drop" THEN "Unit" ELSE "Int", !.val = val,
                    !.sys = <<CloseSys(h, r)>>,
                    !.life = Life(h, explicit[h], Append(closeLog[h], hfd[h]))]

\* The owning scope of a handle ends, or the panicking thread unwinds.
Drop(h) ==
    /\ hstate[h] = "live"
    /\ drop(h, "drop", 0)
    /\ Gone(h, "dropped")
    /\ UNCHANGED <<ndev, panicked, hdev, wire>>

\* ----------------------------------------------------------------- accessors
\* AsRawFd::as_raw_fd(&self)
AsRawFd(h) ==
    /\ ~panicked
    /\ hstate[h] = "live"
    /\ last' = [Blank("as_raw_fd", h) EXCEPT
                  !.kind = "Int", !.val = hfd[h],
                  !.life = Life(h, explicit[h], closeLog[h])]
    /\ UNCHANGED <<hstate, hfd, fdtable, ndev, panicked, hist, wire>>

\* IntoRawFd::into_raw_fd(self): self.fd is copied out as the result; self is
\* still an Iface and goes out of scope at the end of the function, so
\* Drop::drop runs on it before the caller gets the value.
IntoRawFd(h) ==
    /\ ~panicked
    /\ hstate[h] = "live"
    /\ drop(h, "into_raw_fd", hfd[h])
    /\ Gone(h, "consumed")
    /\ UNCHANGED <<ndev, panicked, hdev, wire>>

\* ------------------------------------------------------------- read and write
\* errno values the syscall leaves when it reports x on the handle's descriptor.
IoErrnoOf(h, x) == IF x < 0 THEN IoErrnoSet(fdtable, hfd[h]) ELSE {"none"}

\* The record of a read, write or flush form: res is what it returns and
\* sys the syscalls it issued.
IoRec(op, h, len, res, sys) ==
    [Blank(op, h) EXCEPT
       !.args = [NoArgs EXCEPT !.len = len],
       !.kind = res.kind, !.val = res.val, !.err = res.err, !.sys = sys,
       !.life = Life(h, explicit[h], closeLog[h]),
       !.retry = (last.op \in IoOps /\ last.h = h /\ last.kind = "Err")]

\* A read or write form may run: the thread is alive, the handle exists and
\* the assert on the buffer's length passes.
IoEnabled(h, len) ==
    /\ ~panicked
    /\ hstate[h] = "live"
    /\ LenAssert(len)

\* No read, write or flush form assigns a field or changes the OS state
\* beyond the syscall it issues.
IoFrame == UNCHANGED <<hstate, hfd, fdtable, ndev, panicked, hist, wire>>

\* A read that issues the write syscall.
ReadOutcomeCallsWrite(h, len, x, e) ==
    IoRec("read", h, len, IoResult(x, e),
          <<Sys("write", hfd[h], len, x, e, DevAt(fdtable, hfd[h]))>>)

\* impl Read for Iface: libc::read(self.fd, buf.as_mut_ptr(), buf.len()) and
\* the match on its result.
ReadOutcome(h, len, x, e) ==
    IoRec("read", h, len, IoResult(x, e),
          <<Sys("read", hfd[h], len, x, e, DevAt(fdtable, hfd[h]))>>)

\* A shared-reference read that asks for one byte less than the buffer holds.
ReadRefOutcomeShort(h, len, x, e) ==
    IoRec("read_ref", h, len, IoResult(x, e),
          <<Sys("read", hfd[h], IF len > 0 THEN len - 1 ELSE 0, x, e,
                DevAt(fdtable, hfd[h]))>>)

\* impl Read for &Iface: libc::read(self.fd, buf.as_mut_ptr(), buf.len()) and
\* the match on its result.
ReadRefOutcome(h, len, x, e) ==
    IoRec("read_ref", h, len, IoResult(x, e),
          <<Sys("read", hfd[h], len, x, e, DevAt(fdtable, hfd[h]))>>)

\* impl Write for Iface: libc::write(self.fd, buf.as_ptr(), buf.len()) and
\* the match on its result.
WriteOutcome(h, len, x, e) ==
    IoRec("write", h, len, IoResult(x, e),
          <<Sys("write", hfd[h], len, x, e, DevAt(fdtable, hfd[h]))>>)

\* impl Write for &Iface: libc::write(self.fd, buf.as_ptr(), buf.len()) and
\* the match on its result.
WriteRefOutcome(h, len, x, e) ==
    IoRec("write_ref", h, len, IoResult(x, e),
          <<Sys("write", hfd[h], len, x, e, DevAt(fdtable, hfd[h]))>>)

\* impl Read for Iface: the OS answers the request with x and errno e.
Read(h, len) ==
    /\ IoEnabled(h, len)
    /\ \E x \in IoRets(fdtable, hfd[h], len) :
       \E e \in IoErrnoOf(h, x) : last' = ReadOutcome(h, len, x, e)
    /\ IoFrame

\* impl Read for &Iface
ReadRef(h, len) ==
    /\ IoEnabled(h, len)
    /\ \E x \in IoRets(fdtable, hfd[h], len) :
       \E e \in IoErrnoOf(h, x) : last' = ReadRefOutcome(h, len, x, e)
    /\ IoFrame

\* impl Write for Iface
Write(h, len) ==
    /\ IoEnabled(h, len)
    /\ \E x \in IoRets(fdtable, hfd[h], len) :
       \E e \in IoErrnoOf(h, x) : last' = WriteOutcome(h, len, x, e)
    /\ IoFrame

\* impl Write for &Iface
WriteRef(h, len) ==
    /\ IoEnabled(h, len)
    /\ \E x \in IoRets(fdtable, hfd[h], len) :
       \E e \in IoErrnoOf(h, x) : last' = WriteRefOutcome(h, len, x, e)
    /\ IoFrame

\* impl Write for Iface: fn flush(&mut self) -> Result<()> { Ok(()) }
FlushOutcome(h) ==
    IoRec("flush", h, 0, [kind |-> "Ok", val |-> 0, err |-> "none"], <<>>)

\* impl Write for &Iface: fn flush(&mut self) -> Result<()> { Ok(()) }
FlushRefOutcome(h) ==
    IoRec("flush_ref", h, 0, [kind |-> "Ok", val |-> 0, err |-> "none"], <<>>)

\* impl Write for Iface: flush
Flush(h) ==
    /\ ~panicked
    /\ hstate[h] = "live"
    /\ last' = FlushOutcome(h)
    /\ IoFrame

\* impl Write for &Iface: flush
FlushRef(h) ==
    /\ ~panicked
    /\ hstate[h] = "live"
    /\ last' = FlushRefOutcome(h)
    /\ IoFrame

Next ==
    \/ \E name \in Names, mode \in Modes, mtu \in Mtus : new(name, mode, mtu)
    \/ \E h \in Handles : Close(h)
    \/ \E h \in Handles : Drop(h)
    \/ \E h \in Handles : AsRawFd(h)
    \/ \E h \in Handles : IntoRawFd(h)
    \/ \E h \in Handles, len \in 0..MaxLen : Read(h, len)
    \/ \E h \in Handles, len \in 0..MaxLen : ReadRef(h, len)
    \/ \E h \in Handles, len \in 0..MaxLen : Write(h, len)
    \/ \E h \in Handles, len \in 0..MaxLen : WriteRef(h, len)
    \/ \E h \in Handles : Flush(h)
    \/ \E h \in Handles : FlushRef(h)

Spec == Init /\ [][Next]_vars

TypeOK ==
    /\ hstate \in [Handles -> {"none", "live", "dropped", "consumed"}]
    /\ fdtable \in [FDs -> 0..MaxHandles]
    /\ ndev \in 0..MaxHandles
    /\ panicked \in BOOLEAN

\* ------------------------------------------------------- the loopback double
Min(a, b) == IF a <= b THEN a ELSE b

\* The double joins devices 1 and 2: the device at the other end of the wire.
Peer(d) == 3 - d

\* write(2) on the double for device d (0: the descriptor is not open): a
\* frame is taken whole, or refused while another one is on the wire.
LoopWriteRet(d, len) == IF d = 0 \/ wire # NoFrame THEN -1 ELSE len

LoopWriteErrno(d) ==
    IF d = 0 THEN "EBADF" ELSE IF wire # NoFrame THEN "EAGAIN" ELSE "none"

\* read(2) on the double for device d: the frame on the wire for d, cut to
\* the length asked for; an error when there is none.
LoopReadRet(d, len) ==
    IF d = 0 \/ wire.to # d THEN -1 ELSE Min(len, Len(wire.data))

LoopReadErrno(d) ==
    IF d = 0 THEN "EBADF" ELSE IF wire.to # d THEN "EAGAIN" ELSE "none"

\* A write that hands the syscall one byte less than the buffer holds.
WriteArgsShort(buf) ==
    [ptr |-> buf, len |-> IF Len(buf) > 0 THEN Len(buf) - 1 ELSE 0]

\* The arguments of libc::write in impl Write for Iface:
\* buf.as_ptr(), buf.len().
WriteArgs(buf) == [ptr |-> buf, len |-> Len(buf)]

\* The arguments of libc::read in impl Read for Iface: buf.as_mut_ptr(),
\* buf.len(), for a zeroed buffer of cap bytes.
ReadArgs(cap) == [ptr |-> [i \in 1..cap |-> 0], len |-> cap]

\* Iface::new on the double, which has two devices.
LoopNew(name, mode, mtu) ==
    /\ ndev < 2
    /\ new(name, mode, mtu)

\* impl Write for Iface::write with the bytes of buf, on the double.
WriteFrame(h, buf) ==
    /\ IoEnabled(h, Len(buf))
    /\ LET a == WriteArgs(buf)
           d == DevAt(fdtable, hfd[h])
           x == LoopWriteRet(d, a.len)
           e == LoopWriteErrno(d)
       IN /\ wire' = IF x >= 0
                     THEN [to |-> Peer(d), data |-> SubSeq(a.ptr, 1, x), sent |-> buf]
                     ELSE wire
          /\ last' = [IoRec("write", h, Len(buf), IoResult(x, e),
                            <<Sys("write", hfd[h], a.len, x, e, d)>>)
                        EXCEPT !.data = buf]
    /\ UNCHANGED <<hstate, hfd, fdtable, ndev, panicked, hist>>

\* impl Read for Iface::read into a buffer of cap bytes, on the double; the
\* caller's bytes are the first n of the buffer for the result Ok(n).
ReadFrame(h, cap) ==
    /\ IoEnabled(h, cap)
    /\ LET a == ReadArgs(cap)
           d == DevAt(fdtable, hfd[h])
           x == LoopReadRet(d, a.len)
           e == LoopReadErrno(d)
           res == IoResult(x, e)
           buf == IF x >= 0
                  THEN SubSeq(wire.data, 1, x) \o SubSeq(a.ptr, x + 1, cap)
                  ELSE a.ptr
       IN /\ wire' = IF x >= 0 THEN NoFrame ELSE wire
          /\ last' = [IoRec("read", h, cap, res,
                            <<Sys("read", hfd[h], a.len, x, e, d)>>)
                        EXCEPT !.data = IF res.kind = "Ok"
                                        THEN SubSeq(buf, 1, res.val) ELSE <<>>]
    /\ UNCHANGED <<hstate, hfd, fdtable, ndev, panicked, hist>>

LoopNext ==
    \/ \E name \in Names, mode \in Modes, mtu \in Mtus : LoopNew(name, mode, mtu)
    \/ \E h \in Handles, buf \in Frames : WriteFrame(h, buf)
    \/ \E h \in Handles, cap \in 0..MaxFrame : ReadFrame(h, cap)

SpecLoop == Init /\ [][LoopNext]_vars

\* ================================================================== claims
HasNul(name) == \E i \in DOMAIN name : name[i] = 0

\* C1: into_raw_fd issues no close on the handle's descriptor, and the
\* descriptor it returns is still open on the device the handle created.
C1_IntoRawFdIssuesNoClose ==
    last.op = "into_raw_fd" =>
        /\ last.sys = <<>>
        /\ last.life.closes = <<>>
        /\ DevAt(fdtable, last.val) = hdev[last.h]

\* C2: a handle that was never consumed and never closed explicitly has
\* close issued exactly once, on the descriptor it adopted, when it is
\* destroyed.
C2_DropClosesExactlyOnce ==
    (last.op = "drop" /\ last.life.explicit = 0) =>
        /\ last.life.closes = <<last.life.fd>>
        /\ Len(last.sys) = 1
        /\ last.sys[1].call = "close"
        /\ last.sys[1].fd = last.life.fd

C2_Witness ==
    /\ last.op = "drop"
    /\ last.life.explicit = 0
    /\ last.life.closes = <<last.life.fd>>
    /\ last.sys[1].dev = hdev[last.h]

\* C3: destroying a handle on which close() was called explicitly issues no
\* further close, so the handle issued as many closes as were asked for.
C3_DropAfterCloseIssuesNoClose ==
    (last.op = "drop" /\ last.life.explicit >= 1) =>
        /\ last.sys = <<>>
        /\ Len(last.life.closes) = last.life.explicit

\* C4: every live handle's descriptor is open, and no two live handles hold
\* the same descriptor value.
C4_LiveHandlesExclusive ==
    \A h \in Handles : hstate[h] = "live" =>
        /\ DevAt(fdtable, hfd[h]) # 0
        /\ \A g \in Handles : (g # h /\ hstate[g] = "live") => hfd[g] # hfd[h]

\* C5: when the external creation routine returns a negative value, new
\* returns the creation error, produces no handle, adopts no descriptor and
\* issues no close; every live handle adopted a non-negative value, so no
\* later destruction closes on behalf of a failed call.
C5_FailedCreateAdoptsNothing ==
    /\ [](\A h \in Handles : hstate[h] = "live" => createdFd[h] >= 0)
    /\ [][(last'.op = "new" /\ Len(last'.ext) = 1 /\ last'.ext[1].ret < 0) =>
            /\ last'.kind = "Err"
            /\ last'.err = "unable to create tap"
            /\ last'.h = 0
            /\ last'.sys = <<>>
            /\ UNCHANGED <<hstate, hfd, fdtable, createdFd, closeLog>>]_vars

C5_Witness ==
    /\ last.op = "new"
    /\ last.kind = "Err"
    /\ Len(last.ext) = 1
    /\ last.ext[1].ret < 0
    /\ \E h \in Handles : hstate[h] = "live"

\* C6: creation with kind Tun returns the creation error for every name and
\* MTU, calls no external routine and produces no handle.
C6_TunAlwaysCreationError ==
    (last.op = "new" /\ last.args.mode = "Tun") =>
        /\ last.kind = "Err"
        /\ last.err = "unable to create tap"
        /\ last.ext = <<>>
        /\ last.h = 0

\* C7: for a name with an embedded NUL byte, creation fails before any
\* external routine is called: no external call is made, no handle is
\* produced and no descriptor is opened or held.
C7_NulNameNoExternalCall ==
    [][(last'.op = "new" /\ HasNul(last'.args.name)) =>
         /\ last'.ext = <<>>
         /\ last'.kind # "Ok"
         /\ last'.h = 0
         /\ UNCHANGED <<hstate, hfd, fdtable, ndev>>]_vars

C7_Witness ==
    /\ last.op = "new"
    /\ HasNul(last.args.name)
    /\ last.args.mode \in {"Tap", "MacvTap"}
    /\ last.ext = <<>>

\* C8: every failure of new, read and write is returned as an error value;
\* none panics the calling thread.
C8_FailuresAreErrorValues ==
    /\ ~panicked
    /\ last.kind # "Panic"

\* C9: a successful creation is one of a wired kind, its handle holds the
\* non-negative value the external routine returned, as_raw_fd returns that
\* value on every call, and no operation changes the stored value.
C9_DescriptorStable ==
    /\ \A h \in Handles : hstate[h] = "live" =>
          (hfd[h] = createdFd[h] /\ hfd[h] >= 0)
    /\ (last.op = "new" /\ last.kind = "Ok") =>
          /\ last.args.mode \in {"Tap", "MacvTap"}
          /\ Len(last.ext) = 1
          /\ last.val = last.ext[1].ret
          /\ last.val >= 0
          /\ hfd[last.h] = last.val
    /\ last.op = "as_raw_fd" => last.val = createdFd[last.h]

C9_Witness ==
    /\ last.op = "as_raw_fd"
    /\ last.life.explicit >= 1
    /\ last.val = last.life.fd
    /\ last.val >= 0

\* C10: a read or write whose syscall returns a negative result returns an
\* error carrying the errno of that syscall and leaves the handle and its
\* descriptor as they were; every read and write, also one after a failure,
\* is issued on the descriptor the handle adopted.
C10_FailedIoLeavesHandle ==
    /\ [](last.op \in IoOps =>
            (Len(last.sys) = 1 /\ last.sys[1].fd = last.life.fd))
    /\ [][(last'.op \in IoOps /\ Len(last'.sys) = 1 /\ last'.sys[1].ret < 0) =>
            /\ last'.kind = "Err"
            /\ last'.err = last'.sys[1].errno
            /\ UNCHANGED <<hstate, hfd, fdtable, createdFd, closeLog>>]_vars

C10_Witness ==
    /\ last.op \in IoOps
    /\ last.retry
    /\ last.kind = "Ok"
    /\ last.val = last.args.len
    /\ last.val >= 1
    /\ last.sys[1].fd = hfd[last.h]

\* C11: an explicit close() issues exactly one close(2), on the handle's
\* descriptor, and returns the status of that call unchanged as an integer.
C11_CloseReturnsRawStatus ==
    last.op = "close" =>
        /\ Len(last.sys) = 1
        /\ last.sys[1].call = "close"
        /\ last.sys[1].fd = last.life.fd
        /\ last.kind = "Int"
        /\ last.val = last.sys[1].ret

C11_Witness ==
    /\ last.op = "close"
    /\ last.sys[1].dev = hdev[last.h]
    /\ last.sys[1].ret = -1
    /\ last.kind = "Int"
    /\ last.val = -1

\* C12: a creation with a valid name calls create_tap once and nothing else
\* for Tap, create_macvtap once and nothing else for MacvTap, no routine
\* for Tun, and hands the routine the caller's MTU.
C12_OneExternalCall ==
    (last.op = "new" /\ ~HasNul(last.args.name)) =>
        /\ Len(last.ext) <= 1
        /\ last.args.mode = "Tun" => last.ext = <<>>
        /\ last.args.mode = "Tap" =>
              (Len(last.ext) = 1 /\ last.ext[1].fn = "create_tap")
        /\ last.args.mode = "MacvTap" =>
              (Len(last.ext) = 1 /\ last.ext[1].fn = "create_macvtap")
        /\ \A i \in DOMAIN last.ext : last.ext[i].mtu = last.args.mtu

C12_Witness ==
    /\ last.op = "new"
    /\ last.args.mode = "MacvTap"
    /\ last.args.mtu = 1500
    /\ Len(last.ext) = 1
    /\ last.ext[1].fn = "create_macvtap"
    /\ last.ext[1].mtu = 1500

\* C13: every read issues exactly one read(2) and every write exactly one
\* write(2), on the handle's descriptor and for the buffer's length; a
\* non-negative count is returned unchanged and is at most that length, a
\* negative result is returned as an error.
C13_OneSyscallPerCall ==
    last.op \in IoOps =>
        /\ Len(last.sys) = 1
        /\ last.sys[1].call = (IF last.op \in {"read", "read_ref"} THEN "read" ELSE "write")
        /\ last.sys[1].fd = last.life.fd
        /\ last.sys[1].len = last.args.len
        /\ last.sys[1].ret >= 0 =>
              /\ last.kind = "Ok"
              /\ last.val = last.sys[1].ret
              /\ last.val <= last.args.len
        /\ last.sys[1].ret < 0 => last.kind = "Err"

C13_Witness ==
    /\ last.op = "read"
    /\ last.args.len >= 1
    /\ Len(last.sys) = 1
    /\ last.sys[1].ret = 0
    /\ last.kind = "Ok"
    /\ last.val = 0

\* What a caller observes of an operation, whichever form was called.
Observed(rec) == [rec EXCEPT !.op = "io"]

\* C14: for the same handle, OS state, buffer length and answer of the OS,
\* the shared-reference forms of read, write and flush issue the same
\* syscall and return the same result as the exclusive forms, and no form
\* changes the handle or the descriptor table.
C14_SharedFormsEquivalent ==
    /\ [](\A h \in Handles : hstate[h] = "live" =>
            /\ Observed(FlushRefOutcome(h)) = Observed(FlushOutcome(h))
            /\ \A len \in 0..MaxLen :
               \A x \in IoRets(fdtable, hfd[h], len) :
               \A e \in IoErrnoOf(h, x) :
                 /\ Observed(ReadRefOutcome(h, len, x, e)) =
                        Observed(ReadOutcome(h, len, x, e))
                 /\ Observed(WriteRefOutcome(h, len, x, e)) =
                        Observed(WriteOutcome(h, len, x, e)))
    /\ [][(last'.op \in IoOps \cup {"flush", "flush_ref"}) =>
            UNCHANGED <<hstate, hfd, fdtable, ndev, panicked, hist>>]_vars

C14_Witness ==
    /\ last.op = "write_ref"
    /\ last.kind = "Ok"
    /\ last.val >= 1
    /\ last = [WriteRefOutcome(last.h, last.args.len, last.val, "none")
                 EXCEPT !.retry = last.retry]

\* C16: no syscall issued through a handle (a close by close() or by
\* destruction, a read, a write) reaches a device that the creation of
\* another handle opened.
C16_NoCrossHandleEffect ==
    \A i \in DOMAIN last.sys : last.sys[i].dev \in {0, hdev[last.h]}

\* C17: every non-negative value an external routine returns, 0 included, is
\* adopted by one new handle, and once every handle that was created has
\* been destroyed no descriptor is open.
C17_NoLeak ==
    /\ []((\A h \in Handles : hstate[h] \in {"none", "dropped"}) =>
            /\ \A fd \in FDs : fdtable[fd] = 0
            /\ ndev = Cardinality({h \in Handles : hstate[h] = "dropped"}))
    /\ [][(last'.op = "new" /\ Len(last'.ext) = 1 /\ last'.ext[1].ret >= 0) =>
            /\ last'.kind = "Ok"
            /\ hstate[last'.h] = "none"
            /\ hstate'[last'.h] = "live"
            /\ hfd'[last'.h] = last'.ext[1].ret
            /\ ndev' = ndev + 1]_vars

C17_Witness ==
    /\ \A h \in Handles : hstate[h] = "dropped"
    /\ \A fd \in FDs : fdtable[fd] = 0
    /\ last.op = "drop"
    /\ last.life.fd = 0
    /\ last.sys[1].dev = hdev[last.h]

\* C15: on the loopback double, a read at the paired end with a buffer of at
\* least N bytes returns N and the N bytes of the buffer that was written,
\* in their order.
C15_RoundTrip ==
    [][(last'.op = "read" /\ last'.kind = "Ok" /\ wire # NoFrame
            /\ last'.args.len >= Len(wire.sent)) =>
         /\ last'.val = Len(wire.sent)
         /\ last'.data = wire.sent]_vars

C15_Witness ==
    /\ last.op = "read"
    /\ last.kind = "Ok"
    /\ last.val = 2
    /\ last.data = <<1, 2>>
    /\ wire = NoFrame
====
